---- MODULE Spec2Model ----
(***************************************************************************)
(* Model of src/main.py: the product catalog, its word/prefix search       *)
(* index, the debounced search, pagination and the CSV import of           *)
(* ProductApp.                                                             *)
(*                                                                         *)
(* A Python str is a sequence of one-character strings.  The character     *)
(* U+5F85 (the "pending" marker of line 595) is written PENDING.           *)
(***************************************************************************)
EXTENDS Integers, Sequences, FiniteSets, TLC

VARIABLES
    all_data,            \* self.all_data
    filtered_data,       \* self.filtered_data
    search_index,        \* self.search_index: key -> list of records
    current_page,        \* self.current_page
    search_term,         \* self.search_term
    debounce_timer,      \* self.debounce_timer: 0 is None, else a timer id
    timers,              \* the threading.Timer objects created so far
    storage,             \* page.client_storage, key "product_data"
    snacks,              \* the messages _show_snack showed in the handler
                         \* that ran last
    status_text,         \* self.status_text.value
    status_visible,      \* self.status_text.visible
    table_visible,       \* self.data_table.visible
    pagination_visible,  \* self.pagination_controls.visible
    rows,                \* self.data_table.rows
    db_count,            \* the number shown by self.db_count_text
    handler,             \* the event handler thread: its position and locals
    store_log,           \* what the last of _load_data and _save_data to run
                         \* wrote to the logger
    log                  \* history: per timer, the value of the event that
                         \* armed it and the term its search read

vars == <<all_data, filtered_data, search_index, current_page, search_term,
          debounce_timer, timers, storage, snacks, status_text, status_visible,
          table_visible, pagination_visible, rows, db_count, handler,
          store_log, log>>

-----------------------------------------------------------------------------
(* Program constants                                                       *)

ITEMS_PER_PAGE == 20

\* range(1, min(len(value) + 1, 10)), line 189
PREFIX_STOP == 10

\* len(row) < 5, line 590
MIN_FIELDS == 5

-----------------------------------------------------------------------------
(* Bounds of the model                                                     *)

\* number of rows of the generated catalog
MaxRows == 41

\* number of threading.Timer objects created in one behaviour
MaxTimers == 2
\* number of events of the search field while the catalog is replaced
MaxSearches == 1

-----------------------------------------------------------------------------
(* Python str operations                                                   *)

UpperChars == <<"A", "B", "C", "D", "E", "F", "G", "H", "I", "J", "K", "L", "M",
                "N", "O", "P", "Q", "R", "S", "T", "U", "V", "W", "X", "Y", "Z">>

LowerChars == <<"a", "b", "c", "d", "e", "f", "g", "h", "i", "j", "k", "l", "m",
                "n", "o", "p", "q", "r", "s", "t", "u", "v", "w", "x", "y", "z">>

Range(s) == {s[i] : i \in DOMAIN s}

PENDING == "<U+5F85>"

\* stands for what makes csv.reader raise csv.Error on a line: a NUL
\* character ("line contains NUL"), a field over the field size limit
NUL == "<NUL>"

Whitespace == {" ", "\t"}

\* the characters str.lower() and str.upper() change
LowerOf ==
    [c \in Range(UpperChars) |->
        LowerChars[CHOOSE i \in DOMAIN UpperChars : UpperChars[i] = c]]

UpperOf ==
    [c \in Range(LowerChars) |->
        UpperChars[CHOOSE i \in DOMAIN LowerChars : LowerChars[i] = c]]

LowerChar(c) == IF c \in DOMAIN LowerOf THEN LowerOf[c] ELSE c

UpperChar(c) == IF c \in DOMAIN UpperOf THEN UpperOf[c] ELSE c

\* str.lower()
lower(s) == [i \in 1..Len(s) |-> LowerChar(s[i])]

\* str.upper()
upper(s) == [i \in 1..Len(s) |-> UpperChar(s[i])]

\* str.strip()
strip(s) ==
    LET keep == {i \in 1..Len(s) : s[i] \notin Whitespace}
    IN  IF keep = {} THEN <<>>
        ELSE LET lo == CHOOSE i \in keep : \A j \in keep : i <= j
                 hi == CHOOSE i \in keep : \A j \in keep : j <= i
             IN  SubSeq(s, lo, hi)

\* str.startswith(p)
startswith(s, p) == Len(p) <= Len(s) /\ SubSeq(s, 1, Len(p)) = p

\* the Python expression  t in s  on two strs
contains(s, t) ==
    \E i \in 0..(Len(s) - Len(t)) : SubSeq(s, i + 1, i + Len(t)) = t

\* s.split(sep) for a one-character separator: the fields between them
RECURSIVE splitOn(_, _)
splitOn(s, sep) ==
    IF \A i \in 1..Len(s) : s[i] # sep THEN <<s>>
    ELSE LET k == CHOOSE i \in 1..Len(s) :
                      s[i] = sep /\ \A j \in 1..(i - 1) : s[j] # sep
         IN  <<SubSeq(s, 1, k - 1)>> \o splitOn(SubSeq(s, k + 1, Len(s)), sep)

\* str.split(): the maximal runs of non-whitespace characters, in order
RECURSIVE split(_)
split(s) ==
    LET keep == {i \in 1..Len(s) : s[i] \notin Whitespace}
    IN  IF keep = {} THEN <<>>
        ELSE LET lo == CHOOSE i \in keep : \A j \in keep : i <= j
                 stops == {i \in lo..Len(s) : s[i] \in Whitespace}
                 hi == IF stops = {} THEN Len(s)
                       ELSE (CHOOSE i \in stops : \A j \in stops : i <= j) - 1
             IN  <<SubSeq(s, lo, hi)>> \o split(SubSeq(s, hi + 1, Len(s)))

Min(a, b) == IF a <= b THEN a ELSE b

-----------------------------------------------------------------------------
(* Records                                                                 *)

\* the dict built at lines 598-605, and the dicts of DEFAULT_DATA
Item(id, code, categoryName, name, spec) ==
    [id |-> id, code |-> code, categoryName |-> categoryName,
     name |-> name, spec |-> spec, udi |-> <<>>]

DEFAULT_DATA == <<
    Item(1, <<"0", "1", "3", "7", "N", "E">>,
         <<"S", "y", "r", "i", "n", "g", "e", "s">>,
         <<"P", "e", "r", "o", "u", "s", "e", " ", "P", "e", "r", "o", "u", "s",
           "e", " ", "S", "y", "r", "i", "n", "g", "e", "s", " ", "1", "5", "0",
           "m", "l">>,
         <<>>),
    Item(2, <<"0", "1", "6", "3", "N", "A">>,
         <<"H", "i", "g", "h", " ", "P", "r", "e", "s", "s", "u", "r", "e", " ",
           "T", "u", "b", "i", "n", "g">>,
         <<"P", "e", "r", "o", "u", "s", "e", " ", "H", "i", "g", "h", "P", "r",
           "e", "s", "s", "u", "r", "e", " ", "L", "i", "n", "e", " ", "5", "0",
           "c", "m">>,
         <<"1", ".", "8", "m", "m">>),
    Item(3, <<"0", "1", "6", "3", "N", "D">>,
         <<"H", "i", "g", "h", " ", "P", "r", "e", "s", "s", "u", "r", "e", " ",
           "T", "u", "b", "i", "n", "g">>,
         <<"P", "e", "r", "o", "u", "s", "e", " ", "H", "i", "g", "h", "P", "r",
           "e", "s", "s", "u", "r", "e", " ", "L", "i", "n", "e", "1", "2", "0",
           "c", "m">>,
         <<>>),
    Item(4, <<"0", "1", "8", "5", "N", "A">>,
         <<"I", "n", "f", "l", "a", "t", "i", "o", "n", " ", "D", "e", "v", "i",
           "c", "e">>,
         <<"P", "e", "r", "o", "u", "s", "e", " ", "I", "n", "f", "l", "a", "t",
           "i", "o", "n", " ", "D", "e", "v", "i", "c", "e", " ", "3", "0", "a",
           "t", "m">>,
         <<>>) >>

-----------------------------------------------------------------------------
(* The search index                                                        *)

EmptyIndex == [k \in {} |-> <<>>]

\* "if key not in index: index[key] = []" then
\* "if item not in index[key]: index[key].append(item)": the bucket of key
AddToBucket(index, key, item) ==
    IF key \notin DOMAIN index THEN <<item>>
    ELSE IF item \in Range(index[key]) THEN index[key]
    ELSE Append(index[key], item)

\* the index after a loop that does AddToBucket for every key of keys: the
\* buckets of different keys do not depend on one another, and adding the
\* same item to a bucket twice adds it once
AddAll(index, keys, item) ==
    [key \in (DOMAIN index) \cup keys |->
        IF key \in keys THEN AddToBucket(index, key, item) ELSE index[key]]

\* f"{item['code']} {item['name']} {item['spec']}".lower()
searchable_text(item) ==
    lower(item.code \o <<" ">> \o item.name \o <<" ">> \o item.spec)

\* the keys of "for word in searchable_text.split()", lines 173-177
WordKeys(item) == Range(split(searchable_text(item)))

\* f"_prefix_{prefix}"
PrefixKey(prefix) == <<"_", "p", "r", "e", "f", "i", "x", "_">> \o prefix

\* the keys of "for i in range(1, min(len(value) + 1, 10))", lines 189-191
PrefixKeys(value) ==
    {PrefixKey(SubSeq(value, 1, i)) :
        i \in 1..(Min(Len(value) + 1, PREFIX_STOP) - 1)}

\* the keys of "for key in ['code', 'name', 'spec']", lines 187-195
ItemPrefixKeys(item) ==
    PrefixKeys(lower(item.code)) \cup PrefixKeys(lower(item.name))
        \cup PrefixKeys(lower(item.spec))

_add_prefix_index(index, item) == AddAll(index, ItemPrefixKeys(item), item)

\* one iteration of "for item in self.all_data" of _build_search_index
IndexItem(index, item) ==
    _add_prefix_index(AddAll(index, WordKeys(item), item), item)

\* every key an iteration of the loop adds item under
ItemKeys(item) == WordKeys(item) \cup ItemPrefixKeys(item)

\* the positions of data whose item the loop appends to the bucket of key,
\* given the pairs <<key, i>> with key a key of data[i]: the item has the
\* key, and "item not in bucket" holds, which it does unless an equal item
\* came earlier
Appended(key, pairs, data) ==
    {i \in DOMAIN data :
        <<key, i>> \in pairs /\ \A j \in 1..(i - 1) : data[j] # data[i]}

\* the items at the positions pos of data, in the order of data
\* the bucket when each record is put in front: insert(0, item) for append
ItemsAtFront(data, pos) ==
    [k \in 1..Cardinality(pos) |->
        data[CHOOSE i \in pos : Cardinality({j \in pos : j >= i}) = k]]

ItemsAt(data, pos) ==
    [k \in 1..Cardinality(pos) |->
        data[CHOOSE i \in pos : Cardinality({j \in pos : j <= i}) = k]]

\* the index with the buckets of the keys of pairs
Buckets(pairs, data) ==
    [key \in {p[1] : p \in pairs} |-> ItemsAt(data, Appended(key, pairs, data))]

\* the value of self.search_index after _build_search_index on all_data =
\* data: the loop "for item in self.all_data" run to its end from {}
_build_search_index(data) ==
    Buckets(UNION {{<<key, i>> : key \in ItemKeys(data[i])} : i \in DOMAIN data},
            data)

\* the row filter of the list comprehension of _search_with_index
Matches(row, term_lower) ==
    \/ contains(lower(row.code), term_lower)
    \/ contains(lower(row.name), term_lower)
    \/ contains(lower(row.spec), term_lower)

LinearScan(data, term_lower) ==
    SelectSeq(data, LAMBDA row : Matches(row, term_lower))

_search_with_index(index, data, term) ==
    LET term_lower == strip(lower(term))
    IN  IF term_lower = <<>> THEN <<>>
        ELSE IF PrefixKey(term_lower) \in DOMAIN index
             THEN index[PrefixKey(term_lower)]
        ELSE IF term_lower \in DOMAIN index THEN index[term_lower]
        ELSE LinearScan(data, term_lower)

-----------------------------------------------------------------------------
(* Pagination                                                              *)

\* len(self.filtered_data) // ITEMS_PER_PAGE in place of math.ceil
total_pages_floor(data) == Len(data) \div ITEMS_PER_PAGE

\* math.ceil(len(self.filtered_data) / ITEMS_PER_PAGE)
total_pages(data) == (Len(data) + ITEMS_PER_PAGE - 1) \div ITEMS_PER_PAGE

\* self.filtered_data[start:end] of _render_table, for page >= 1
page_data(data, page) ==
    LET start == (page - 1) * ITEMS_PER_PAGE
        end == start + ITEMS_PER_PAGE
    IN  SubSeq(data, start + 1, Min(end, Len(data)))

\* the rows _render_table leaves in self.data_table.rows
_render_table(data, page) ==
    IF data = <<>> THEN <<>> ELSE page_data(data, page)

\* self.pagination_controls.visible after _render_pagination
_render_pagination(data) == ~(total_pages(data) <= 1)

\* _change_page with the test "1 <= new_page" alone
_change_page_no_upper(data, page, delta) ==
    LET new_page == page + delta
    IN  IF 1 <= new_page THEN new_page ELSE page

\* the page _change_page(delta) leaves in self.current_page
_change_page(data, page, delta) ==
    LET new_page == page + delta
    IN  IF 1 <= new_page /\ new_page <= total_pages(data) THEN new_page ELSE page

-----------------------------------------------------------------------------
(* CSV import                                                              *)

\* str.splitlines() on a text whose only line break is "\n"
splitlines(text) ==
    LET parts == splitOn(text, "\n")
    IN  IF parts[Len(parts)] = <<>> THEN SubSeq(parts, 1, Len(parts) - 1)
        ELSE parts

\* the row csv.reader yields for a line without quote characters
csv_row(line) == IF line = <<>> THEN <<>> ELSE splitOn(line, ",")

\* csv.reader raises csv.Error on this line
csv_raises(line) == NUL \in Range(line)

\* line 595 with code.startswith("ZZ"), the case kept
ExcludedCaseKept(code) ==
    startswith(code, <<"Z", "Z">>) \/ startswith(code, <<PENDING>>)

\* code.upper().startswith("ZZ") or code.startswith(PENDING), line 595
Excluded(code) ==
    startswith(upper(code), <<"Z", "Z">>) \/ startswith(code, <<PENDING>>)

\* the id given to the row that enumerate(reader, 1) numbers idx
RowId(idx, parsed_data) == idx

\* the loop "for idx, row in enumerate(reader, 1)", lines 589-605: the rows
\* still to read, the number of the next row and parsed_data so far
RECURSIVE ParseRows(_, _, _)
ParseRows(lines, idx, parsed_data) ==
    IF lines = <<>> THEN [raised |-> FALSE, parsed_data |-> parsed_data]
    ELSE IF csv_raises(Head(lines))
         THEN [raised |-> TRUE, parsed_data |-> parsed_data]
    ELSE LET row == csv_row(Head(lines))
         IN  IF Len(row) < MIN_FIELDS
             THEN ParseRows(Tail(lines), idx + 1, parsed_data)
             ELSE IF Excluded(strip(row[1]))
                  THEN ParseRows(Tail(lines), idx + 1, parsed_data)
             ELSE ParseRows(Tail(lines), idx + 1,
                      Append(parsed_data,
                             Item(RowId(idx, parsed_data), strip(row[1]),
                                  strip(row[3]), strip(row[4]), strip(row[5]))))

\* lines 582-605: what the try block has in parsed_data, or that it raised
ParseCsv(text_content) ==
    LET lines == splitlines(text_content)
    IN  IF lines = <<>> THEN [raised |-> FALSE, parsed_data |-> <<>>]
        ELSE IF csv_raises(Head(lines))
             THEN [raised |-> TRUE, parsed_data |-> <<>>]
        ELSE ParseRows(Tail(lines), 1, <<>>)

-----------------------------------------------------------------------------
(* Inputs                                                                  *)

Digits == <<"0", "1", "2", "3", "4", "5", "6", "7", "8", "9">>

\* row i of a catalog an earlier session imported and saved: codes k01, k02,
\* ..., every name "W", spec "p" on the first ITEMS_PER_PAGE rows, "q" after
StoredItem(i) ==
    Item(i, <<"k", Digits[(i \div 10) + 1], Digits[(i % 10) + 1]>>, <<"c">>,
         <<"W">>, IF i <= ITEMS_PER_PAGE THEN <<"p">> ELSE <<"q">>)

StoredCatalog == [i \in 1..MaxRows |-> StoredItem(i)]

\* what client_storage.get("product_data") may return at startup
Absent == [present |-> FALSE, value |-> <<>>]

StoredValues == {Absent,
                 [present |-> TRUE, value |-> <<>>],
                 [present |-> TRUE, value |-> StoredCatalog]}

\* the values e.control.value of the search field takes
SearchInputs == {<<" ">>,
                 <<"L", "i", "n", "e">>,
                 <<" ", "W", " ">>,
                 <<"q">>}

Header == <<"C", "o", "d", "e", ",", "x", ",", "C", "a", "t", ",", "N", "a", "m",
            "e", ",", "S", "p", "e", "c", "\n">>

\* header, "ZZ01,x,Cat,Name,Spec", "0001,x,Cat,Widget,Small"
CsvExample ==
    Header \o <<"Z", "Z", "0", "1", ",", "x", ",", "C", "a", "t", ",", "N", "a",
                "m", "e", ",", "S", "p", "e", "c", "\n">>
           \o <<"0", "0", "0", "1", ",", "x", ",", "C", "a", "t", ",", "W", "i",
                "d", "g", "e", "t", ",", "S", "m", "a", "l", "l">>

\* header, " A1 ,x, Cat , Line Kit , 5mm", an empty line, " zz9,x,c,n,s",
\* "B2,x,Cat,Pipeline,", "B3,x,Cat", "<U+5F85>B,x,c,n,s",
\* "K<U+5F85>,x,Cat,ZZ Top,s,extra", "_prefix_li,x,Cat,Tag,s"; the last code
\* is spelled like the key of the prefix bucket of "li"
CsvMixed ==
    Header \o <<" ", "A", "1", " ", ",", "x", ",", " ", "C", "a", "t", " ", ",",
                " ", "L", "i", "n", "e", " ", "K", "i", "t", " ", ",", " ", "5",
                "m", "m", "\n">>
           \o <<"\n">>
           \o <<" ", "z", "z", "9", ",", "x", ",", "c", ",", "n", ",", "s", "\n">>
           \o <<"B", "2", ",", "x", ",", "C", "a", "t", ",", "P", "i", "p", "e",
                "l", "i", "n", "e", ",", "\n">>
           \o <<"B", "3", ",", "x", ",", "C", "a", "t", "\n">>
           \o <<PENDING, "B", ",", "x", ",", "c", ",", "n", ",", "s", "\n">>
           \o <<"K", PENDING, ",", "x", ",", "C", "a", "t", ",", "Z", "Z", " ",
                "T", "o", "p", ",", "s", ",", "e", "x", "t", "r", "a", "\n">>
           \o <<"_", "p", "r", "e", "f", "i", "x", "_", "l", "i", ",", "x", ",",
                "C", "a", "t", ",", "T", "a", "g", ",", "s">>

\* header, "Zz1,x,c,n,s", "<U+5F85>A,x,c,n,s", "a,b": no row survives
CsvNoValid ==
    Header \o <<"Z", "z", "1", ",", "x", ",", "c", ",", "n", ",", "s", "\n">>
           \o <<PENDING, "A", ",", "x", ",", "c", ",", "n", ",", "s", "\n">>
           \o <<"a", ",", "b">>

\* header, "C9,x,Cat,Cap,Red", then a line csv.reader raises on
CsvBroken ==
    Header \o <<"C", "9", ",", "x", ",", "C", "a", "t", ",", "C", "a", "p", ",",
                "R", "e", "d", "\n">>
           \o <<"D", NUL, ",", "x">>

\* the values self.csv_input.value takes
CsvInputs == {<<>>, CsvExample, CsvMixed, CsvNoValid, CsvBroken}

\* ParseCsv and _build_search_index, tabulated over the inputs of the model
ParseCsvOf == [text_content \in CsvInputs |-> ParseCsv(text_content)]

Catalogs ==
    {DEFAULT_DATA, StoredCatalog}
        \cup {ParseCsvOf[text_content].parsed_data : text_content \in CsvInputs}

IndexOf == [data \in Catalogs |-> _build_search_index(data)]

\* how client_storage.set ends: it returns, or raises PermissionError, or
\* raises another Exception
SaveOutcomes == {"ok", "PermissionError", "Exception"}

-----------------------------------------------------------------------------
(* State                                                                   *)

Snack(msg, is_success) == [msg |-> msg, is_success |-> is_success]

\* the handler thread between two events: op is the handler it runs, the
\* other fields are the locals of that handler
Idle == [pc |-> "idle", op |-> "none", term |-> <<>>, todo |-> <<>>,
         new_page |-> 0]

\* _load_data that never takes the stored value
_load_data_seed_only(stored, read_raises) == DEFAULT_DATA

\* _load_data, lines 133-148: the catalog after reading the store
_load_data(stored, read_raises) ==
    IF read_raises THEN DEFAULT_DATA
    ELSE IF stored.present /\ stored.value # <<>> THEN stored.value
    ELSE DEFAULT_DATA

\* what _load_data writes to the logger, lines 139, 142 and 144
load_logged(stored, read_raises) ==
    IF read_raises THEN "read_failed"
    ELSE IF stored.present /\ stored.value # <<>> THEN "loaded"
    ELSE "default"

\* what _save_data writes to the logger, lines 154, 156 and 159
save_logged(outcome) ==
    IF outcome = "ok" THEN "saved"
    ELSE IF outcome = "PermissionError" THEN "denied"
    ELSE "save_failed"

\* the state __init__ leaves: _init_state, _load_data, _build_search_index,
\* _init_ui
Init ==
    \E stored \in StoredValues, read_raises \in BOOLEAN :
        /\ storage = stored
        /\ all_data = _load_data(stored, read_raises)
        /\ filtered_data = <<>>
        /\ search_index = IndexOf[_load_data(stored, read_raises)]
        /\ current_page = 1
        /\ search_term = <<>>
        /\ debounce_timer = 0
        /\ timers = <<>>
        /\ snacks = <<>>
        /\ status_text = "PROMPT"
        /\ status_visible = TRUE
        /\ table_visible = TRUE
        /\ pagination_visible = TRUE
        /\ rows = <<>>
        /\ db_count = Len(_load_data(stored, read_raises))
        /\ handler = Idle
        /\ store_log = load_logged(stored, read_raises)
        /\ log = <<>>

catalog_vars == <<all_data, search_index, storage, db_count, store_log>>
result_vars == <<filtered_data, current_page, status_text, status_visible,
                 table_visible, pagination_visible, rows>>
timer_vars == <<debounce_timer, timers>>

-----------------------------------------------------------------------------
(* Handlers, each run in one piece                                         *)

\* _on_search_change without the cancel() of lines 455-456
CancelNothing(ts, id) == ts

\* threading.Timer.cancel(): a timer still waiting will never run its
\* function; on a timer that has started or finished it does nothing
Cancel(ts, id) ==
    IF id # 0 /\ ts[id].pc = "armed" THEN [ts EXCEPT ![id].pc = "cancelled"]
    ELSE ts

\* threading.Timer(DEBOUNCE_DELAY, self._debounced_search) after start();
\* term is the local of the _perform_search it runs
NewTimer == [pc |-> "armed", term |-> <<>>]

\* lines 455-465
_on_search_change(value) ==
    /\ handler.pc = "idle"
    /\ Len(timers) < MaxTimers
    /\ timers' = Append(Cancel(timers, debounce_timer), NewTimer)
    /\ search_term' = value
    /\ debounce_timer' = Len(timers) + 1
    /\ snacks' = <<>>
    /\ UNCHANGED <<catalog_vars, result_vars, handler>>

\* _perform_search without the test "if not term" of line 483
_perform_search_no_empty_test(raw) ==
    LET term == strip(lower(raw))
        found == _search_with_index(search_index, all_data, term)
    IN  /\ filtered_data' = found
        /\ current_page' = 1
        /\ status_visible' = (found = <<>>)
        /\ status_text' = (IF found = <<>> THEN "NO_DATA" ELSE "")
        /\ table_visible' = TRUE
        /\ rows' = _render_table(found, 1)
        /\ pagination_visible' = _render_pagination(found)

\* _perform_search with self.search_term = raw: the state of the result set
\* and of the controls it leaves
_perform_search(raw) ==
    LET term == strip(lower(raw))
        found == _search_with_index(search_index, all_data, term)
    IN  IF term = <<>>
        THEN /\ filtered_data' = <<>>
             /\ status_text' = "PROMPT"
             /\ status_visible' = TRUE
             /\ table_visible' = FALSE
             /\ current_page' = current_page
             /\ rows' = _render_table(<<>>, current_page)
             /\ pagination_visible' = _render_pagination(<<>>)
        ELSE /\ filtered_data' = found
             /\ current_page' = 1
             /\ status_visible' = (found = <<>>)
             /\ status_text' = (IF found = <<>> THEN "NO_DATA" ELSE "")
             /\ table_visible' = TRUE
             /\ rows' = _render_table(found, 1)
             /\ pagination_visible' = _render_pagination(found)

\* the timer t expires and runs _debounced_search
_debounced_search(t) ==
    /\ handler.pc = "idle"
    /\ timers[t].pc = "armed"
    /\ timers' = [timers EXCEPT ![t].pc = "done"]
    /\ _perform_search(search_term)
    /\ snacks' = <<>>
    /\ UNCHANGED <<catalog_vars, search_term, debounce_timer, handler>>

_clear_search ==
    /\ handler.pc = "idle"
    /\ search_term' = <<>>
    /\ _perform_search(<<>>)
    /\ snacks' = <<>>
    /\ UNCHANGED <<catalog_vars, timer_vars, handler>>

ChangePage(delta) ==
    /\ handler.pc = "idle"
    /\ current_page' = _change_page(filtered_data, current_page, delta)
    /\ IF current_page' # current_page
       THEN /\ rows' = _render_table(filtered_data, current_page')
            /\ pagination_visible' = _render_pagination(filtered_data)
       ELSE UNCHANGED <<rows, pagination_visible>>
    /\ snacks' = <<>>
    /\ UNCHANGED <<catalog_vars, filtered_data, status_text, status_visible,
                   table_visible, search_term, timer_vars, handler>>

\* _save_data: the store after client_storage.set ended with outcome
_save_data(data, outcome) ==
    IF outcome = "ok" THEN [present |-> TRUE, value |-> data] ELSE storage

\* _save_data with "pass" in its except clauses
SaveSnacksSilent(outcome) == <<>>

\* the messages _save_data shows
SaveSnacks(outcome) ==
    IF outcome = "ok" THEN <<>>
    ELSE IF outcome = "PermissionError" THEN <<Snack("SAVE_DENIED", FALSE)>>
    ELSE <<Snack("SAVE_FAILED", FALSE)>>

\* lines 607-613 without line 610, the call of _build_search_index
ReplaceCatalogStaleIndex(parsed_data, outcome) ==
    /\ all_data' = parsed_data
    /\ storage' = _save_data(parsed_data, outcome)
    /\ store_log' = save_logged(outcome)
    /\ search_index' = search_index
    /\ snacks' = SaveSnacks(outcome) \o <<Snack("IMPORTED", TRUE)>>
    /\ db_count' = Len(parsed_data)

\* lines 607-613: the import of a non-empty parsed_data
ReplaceCatalog(parsed_data, outcome) ==
    /\ all_data' = parsed_data
    /\ storage' = _save_data(parsed_data, outcome)
    /\ store_log' = save_logged(outcome)
    /\ search_index' = IndexOf[parsed_data]
    /\ snacks' = SaveSnacks(outcome) \o <<Snack("IMPORTED", TRUE)>>
    /\ db_count' = Len(parsed_data)

\* _process_csv_content with the rows read before a parse error kept
_process_csv_content_partial(text_content) ==
    LET r == ParseCsvOf[text_content]
    IN  IF r.raised
        THEN /\ snacks' = <<Snack("PARSE_ERROR", FALSE)>>
             /\ all_data' = r.parsed_data
             /\ UNCHANGED <<search_index, storage, db_count, store_log>>
        ELSE IF r.parsed_data # <<>>
        THEN \E outcome \in SaveOutcomes : ReplaceCatalog(r.parsed_data, outcome)
        ELSE /\ snacks' = <<Snack("NO_VALID", FALSE)>>
             /\ UNCHANGED catalog_vars

\* lines 580-619
_process_csv_content(text_content) ==
    LET r == ParseCsvOf[text_content]
    IN  IF r.raised
        THEN /\ snacks' = <<Snack("PARSE_ERROR", FALSE)>>
             /\ UNCHANGED catalog_vars
        ELSE IF r.parsed_data # <<>>
        THEN \E outcome \in SaveOutcomes : ReplaceCatalog(r.parsed_data, outcome)
        ELSE /\ snacks' = <<Snack("NO_VALID", FALSE)>>
             /\ UNCHANGED catalog_vars

_on_paste_import(content) ==
    /\ handler.pc = "idle"
    /\ IF content = <<>>
       THEN /\ snacks' = <<Snack("PASTE_FIRST", FALSE)>>
            /\ UNCHANGED catalog_vars
       ELSE _process_csv_content(content)
    /\ UNCHANGED <<result_vars, search_term, timer_vars, handler>>

\* _clear_data without line 625, the call of _build_search_index
_clear_data_stale_index(outcome) ==
    /\ handler.pc = "idle"
    /\ all_data' = DEFAULT_DATA
    /\ storage' = _save_data(DEFAULT_DATA, outcome)
    /\ store_log' = save_logged(outcome)
    /\ search_index' = search_index
    /\ db_count' = Len(DEFAULT_DATA)
    /\ snacks' = SaveSnacks(outcome) \o <<Snack("RESET", TRUE)>>
    /\ UNCHANGED <<result_vars, search_term, timer_vars, handler>>

\* _clear_data that also empties the result set and goes back to page 1
_clear_data_drops_results(outcome) ==
    /\ handler.pc = "idle"
    /\ all_data' = DEFAULT_DATA
    /\ storage' = _save_data(DEFAULT_DATA, outcome)
    /\ store_log' = save_logged(outcome)
    /\ search_index' = IndexOf[DEFAULT_DATA]
    /\ db_count' = Len(DEFAULT_DATA)
    /\ snacks' = SaveSnacks(outcome) \o <<Snack("RESET", TRUE)>>
    /\ filtered_data' = <<>>
    /\ current_page' = 1
    /\ rows' = <<>>
    /\ UNCHANGED <<status_text, status_visible, table_visible,
                   pagination_visible, search_term, timer_vars, handler>>

\* lines 621-628
_clear_data(outcome) ==
    /\ handler.pc = "idle"
    /\ all_data' = DEFAULT_DATA
    /\ storage' = _save_data(DEFAULT_DATA, outcome)
    /\ store_log' = save_logged(outcome)
    /\ search_index' = IndexOf[DEFAULT_DATA]
    /\ db_count' = Len(DEFAULT_DATA)
    /\ snacks' = SaveSnacks(outcome) \o <<Snack("RESET", TRUE)>>
    /\ UNCHANGED <<result_vars, search_term, timer_vars, handler>>

Next ==
    \/ \E value \in SearchInputs : _on_search_change(value) /\ UNCHANGED log
    \/ \E t \in DOMAIN timers : _debounced_search(t) /\ UNCHANGED log
    \/ _clear_search /\ UNCHANGED log
    \/ \E delta \in {-1, 1} : ChangePage(delta) /\ UNCHANGED log
    \/ \E content \in CsvInputs : _on_paste_import(content) /\ UNCHANGED log
    \/ \E outcome \in SaveOutcomes : _clear_data(outcome) /\ UNCHANGED log

\* the handlers run one at a time, each in one piece
Spec == Init /\ [][Next]_vars

-----------------------------------------------------------------------------
(* The same handlers statement by statement: the handler thread runs one   *)
(* handler at a time, and every threading.Timer runs _debounced_search on  *)
(* a thread of its own.  Thread 0 is the handler thread, thread t >= 1 the *)
(* thread of timer t.                                                      *)

Threads == {0} \cup DOMAIN timers

Thread(i) == IF i = 0 THEN handler ELSE timers[i]

\* the positions of a thread inside _perform_search
SearchPcs == {"started", "empty", "search", "page", "render"}

InSearch(i) == Thread(i).pc \in SearchPcs

\* thread i moves to pc with its local term
Goto(i, pc, term) ==
    IF i = 0
    THEN /\ handler' = [handler EXCEPT !.pc = pc, !.term = term]
         /\ UNCHANGED timers
    ELSE /\ timers' = [timers EXCEPT ![i] = [pc |-> pc, term |-> term]]
         /\ UNCHANGED handler

\* where a thread is once _perform_search has returned
After(i) == IF i = 0 THEN "idle" ELSE "done"

\* Timer.run: the wait is over and the timer was not cancelled; it calls
\* _debounced_search
Expire(t) ==
    /\ timers[t].pc = "armed"
    /\ timers' = [timers EXCEPT ![t].pc = "started"]
    /\ UNCHANGED <<catalog_vars, result_vars, search_term, debounce_timer,
                   snacks, handler>>

\* line 481: term = self.search_term.lower().strip()
ReadTerm(i) ==
    /\ Thread(i).pc = "started"
    /\ LET term == strip(lower(search_term))
       IN  Goto(i, IF term = <<>> THEN "empty" ELSE "search", term)
    /\ UNCHANGED <<catalog_vars, result_vars, search_term, debounce_timer,
                   snacks>>

\* lines 484-488 and 498, the branch of an empty term
ShowPrompt(i) ==
    /\ Thread(i).pc = "empty"
    /\ filtered_data' = <<>>
    /\ status_text' = "PROMPT"
    /\ status_visible' = TRUE
    /\ table_visible' = FALSE
    /\ rows' = _render_table(<<>>, current_page)
    /\ pagination_visible' = _render_pagination(<<>>)
    /\ Goto(i, After(i), <<>>)
    /\ UNCHANGED <<catalog_vars, current_page, search_term, debounce_timer,
                   snacks>>

\* line 491: self.filtered_data = self._search_with_index(term)
Lookup(i) ==
    /\ Thread(i).pc = "search"
    /\ filtered_data' = _search_with_index(search_index, all_data, Thread(i).term)
    /\ Goto(i, "page", Thread(i).term)
    /\ UNCHANGED <<catalog_vars, current_page, status_text, status_visible,
                   table_visible, pagination_visible, rows, search_term,
                   debounce_timer, snacks>>

\* line 492: self.current_page = 1
FirstPage(i) ==
    /\ Thread(i).pc = "page"
    /\ current_page' = 1
    /\ Goto(i, "render", Thread(i).term)
    /\ UNCHANGED <<catalog_vars, filtered_data, status_text, status_visible,
                   table_visible, pagination_visible, rows, search_term,
                   debounce_timer, snacks>>

\* lines 493-498
ShowResult(i) ==
    /\ Thread(i).pc = "render"
    /\ status_visible' = (filtered_data = <<>>)
    /\ status_text' = (IF filtered_data = <<>> THEN "NO_DATA" ELSE "")
    /\ table_visible' = TRUE
    /\ rows' = _render_table(filtered_data, current_page)
    /\ pagination_visible' = _render_pagination(filtered_data)
    /\ Goto(i, After(i), <<>>)
    /\ UNCHANGED <<catalog_vars, filtered_data, current_page, search_term,
                   debounce_timer, snacks>>

\* lines 474-476: _clear_search up to its call of _perform_search
ClearSearchBegin ==
    /\ handler.pc = "idle"
    /\ search_term' = <<>>
    /\ handler' = [Idle EXCEPT !.pc = "started", !.op = "clear"]
    /\ snacks' = <<>>
    /\ UNCHANGED <<catalog_vars, result_vars, timer_vars>>

\* lines 559-561 of _change_page: the test, with new_page kept when it passes
ChangePageTest(delta) ==
    /\ handler.pc = "idle"
    /\ handler' = IF _change_page(filtered_data, current_page, delta)
                      = current_page + delta
                  THEN [Idle EXCEPT !.pc = "turn", !.op = "page",
                                    !.new_page = current_page + delta]
                  ELSE Idle
    /\ snacks' = <<>>
    /\ UNCHANGED <<catalog_vars, result_vars, search_term, timer_vars>>

\* lines 562-564
ChangePageTurn ==
    /\ handler.pc = "turn"
    /\ current_page' = handler.new_page
    /\ rows' = _render_table(filtered_data, handler.new_page)
    /\ pagination_visible' = _render_pagination(filtered_data)
    /\ handler' = Idle
    /\ UNCHANGED <<catalog_vars, filtered_data, status_text, status_visible,
                   table_visible, search_term, timer_vars, snacks>>

\* _on_paste_import up to line 608: a rejected import ends here
ImportBegin(content) ==
    /\ handler.pc = "idle"
    /\ LET r == ParseCsvOf[content]
       IN  IF content = <<>> \/ r.raised \/ r.parsed_data = <<>>
           THEN _on_paste_import(content)
           ELSE /\ all_data' = r.parsed_data
                /\ handler' = [Idle EXCEPT !.pc = "save", !.op = "import"]
                /\ snacks' = <<>>
                /\ UNCHANGED <<search_index, storage, db_count, store_log,
                               result_vars, search_term, timer_vars>>

\* line 623 of _clear_data
ResetBegin ==
    /\ handler.pc = "idle"
    /\ all_data' = DEFAULT_DATA
    /\ handler' = [Idle EXCEPT !.pc = "save", !.op = "reset"]
    /\ snacks' = <<>>
    /\ UNCHANGED <<search_index, storage, db_count, store_log, result_vars,
                   search_term, timer_vars>>

\* self._save_data(), lines 609 and 624
Save(outcome) ==
    /\ handler.pc = "save"
    /\ storage' = _save_data(all_data, outcome)
    /\ store_log' = save_logged(outcome)
    /\ snacks' = snacks \o SaveSnacks(outcome)
    /\ handler' = [handler EXCEPT !.pc = "reindex"]
    /\ UNCHANGED <<all_data, search_index, db_count, result_vars, search_term,
                   timer_vars>>

\* line 167: self.search_index = {}
IndexReset ==
    /\ handler.pc = "reindex"
    /\ search_index' = EmptyIndex
    /\ handler' = [handler EXCEPT !.pc = "index", !.todo = all_data]
    /\ UNCHANGED <<all_data, storage, db_count, store_log, result_vars,
                   search_term, timer_vars, snacks>>

\* lines 168-180: one iteration of the loop of _build_search_index
IndexNext ==
    /\ handler.pc = "index"
    /\ handler.todo # <<>>
    /\ search_index' = IndexItem(search_index, Head(handler.todo))
    /\ handler' = [handler EXCEPT !.todo = Tail(@)]
    /\ UNCHANGED <<all_data, storage, db_count, store_log, result_vars,
                   search_term, timer_vars, snacks>>

\* lines 611-613 and 626-628: the handler ends
Finish ==
    /\ handler.pc = "index"
    /\ handler.todo = <<>>
    /\ snacks' = snacks \o <<Snack(IF handler.op = "import" THEN "IMPORTED"
                                   ELSE "RESET", TRUE)>>
    /\ db_count' = Len(all_data)
    /\ handler' = Idle
    /\ UNCHANGED <<all_data, search_index, storage, store_log, result_vars,
                   search_term, timer_vars>>

\* History of the timers.  An entry per timer: val, the value of the event
\* that armed it; cont, whether the timer before it was still waiting when
\* the event came (the event continues a burst); ran, whether the timer
\* called _debounced_search; used, the term that search read.
LogEvent(value) ==
    log' = Append(log, [val |-> value,
                        cont |-> (debounce_timer # 0
                                  /\ timers[debounce_timer].pc = "armed"),
                        ran |-> FALSE, used |-> <<>>])

LogExpire(t) == log' = [log EXCEPT ![t].ran = TRUE]

LogRead(i) ==
    log' = IF i = 0 THEN log
           ELSE [log EXCEPT ![i].used = strip(lower(search_term))]

\* searches on the timer threads against the search field, the clear
\* button and the page buttons
NextThreads ==
    \/ \E value \in SearchInputs : _on_search_change(value) /\ LogEvent(value)
    \/ \E t \in DOMAIN timers : Expire(t) /\ LogExpire(t)
    \/ \E i \in Threads : ReadTerm(i) /\ LogRead(i)
    \/ \E i \in Threads : ShowPrompt(i) /\ UNCHANGED log
    \/ \E i \in Threads : Lookup(i) /\ UNCHANGED log
    \/ \E i \in Threads : FirstPage(i) /\ UNCHANGED log
    \/ \E i \in Threads : ShowResult(i) /\ UNCHANGED log
    \/ ClearSearchBegin /\ UNCHANGED log
    \/ \E delta \in {-1, 1} : ChangePageTest(delta) /\ UNCHANGED log
    \/ ChangePageTurn /\ UNCHANGED log

SpecThreads == Init /\ [][NextThreads]_vars

\* searches on the timer threads against an import or a reset, with
\* MaxSearches events of the search field
NextMutation ==
    \/ \E value \in SearchInputs :
           Len(timers) < MaxSearches /\ _on_search_change(value) /\ UNCHANGED log
    \/ \E t \in DOMAIN timers : Expire(t) /\ UNCHANGED log
    \/ \E i \in Threads : ReadTerm(i) /\ UNCHANGED log
    \/ \E i \in Threads : ShowPrompt(i) /\ UNCHANGED log
    \/ \E i \in Threads : Lookup(i) /\ UNCHANGED log
    \/ \E i \in Threads : FirstPage(i) /\ UNCHANGED log
    \/ \E i \in Threads : ShowResult(i) /\ UNCHANGED log
    \/ \E content \in CsvInputs : ImportBegin(content) /\ UNCHANGED log
    \/ ResetBegin /\ UNCHANGED log
    \/ \E outcome \in SaveOutcomes : Save(outcome) /\ UNCHANGED log
    \/ IndexReset /\ UNCHANGED log
    \/ IndexNext /\ UNCHANGED log
    \/ Finish /\ UNCHANGED log

SpecMutation == Init /\ [][NextMutation]_vars

-----------------------------------------------------------------------------
(* Search: the index against the linear scan                               *)

\* the queries a lookup is compared on: those of the search field, a
\* one-character code prefix, and a term spelled like a prefix-tagged key
Queries ==
    SearchInputs \cup {<<"1">>, <<"0">>, PrefixKey(<<"l", "i">>)}

\* C1: for every query whose normalised term is not empty, the lookup that
\* tries the prefix bucket, then the whole-word bucket, then the scan returns
\* the same set of records as the linear scan of the catalog alone, with the
\* index being the one built from that catalog.
C1_IndexEqualsScan ==
    \A q \in Queries :
        LET term == strip(lower(q))
        IN  (term # <<>> /\ search_index = IndexOf[all_data])
                => Range(_search_with_index(search_index, all_data, q))
                       = Range(LinearScan(all_data, term))

-----------------------------------------------------------------------------
(* Import: the ids of the imported records                                 *)

\* an import has just replaced the catalog
Imported == snacks # <<>> /\ snacks[Len(snacks)] = Snack("IMPORTED", TRUE)

\* C2: after an import the k-th record of the catalog, which is the k-th
\* row that passed the length and exclusion filters, has id k.
C2_IdsSequential ==
    Imported => \A k \in DOMAIN all_data : all_data[k].id = k

-----------------------------------------------------------------------------
(* Import: the three steps of an accepted import                           *)

\* the content has at least one row that passes the filters
Accepted(content) ==
    /\ content # <<>>
    /\ ~ParseCsvOf[content].raised
    /\ ParseCsvOf[content].parsed_data # <<>>

Persisted(data) == [present |-> TRUE, value |-> data]

\* C3 as stated: an import with a surviving row either replaces the catalog,
\* persists it and rebuilds the index, or leaves the catalog, the persisted
\* value and the index as they were.
C3_AllOrNothing ==
    [][\A content \in CsvInputs :
          (Accepted(content) /\ _on_paste_import(content))
              => LET parsed_data == ParseCsvOf[content].parsed_data
                 IN  \/ /\ all_data' = parsed_data
                        /\ storage' = Persisted(parsed_data)
                        /\ search_index' = IndexOf[parsed_data]
                     \/ UNCHANGED <<all_data, storage, search_index>>]_vars

\* C3, amended: an import with a surviving row always replaces the catalog
\* and rebuilds the index from it; the persisted value becomes the new
\* catalog when the write succeeds, and stays what it was, with a failure
\* message shown before the success message, when the write fails.
C3_ReplacedAndReindexed ==
    [][\A content \in CsvInputs :
          (Accepted(content) /\ _on_paste_import(content))
              => LET parsed_data == ParseCsvOf[content].parsed_data
                 IN  /\ all_data' = parsed_data
                     /\ search_index' = IndexOf[parsed_data]
                     /\ \/ storage' = Persisted(parsed_data)
                        \/ /\ storage' = storage
                           /\ Len(snacks') = 2
                           /\ ~snacks'[1].is_success
                     /\ snacks'[Len(snacks')] = Snack("IMPORTED", TRUE)]_vars

\* an import went through although its write failed: the catalog is new,
\* the persisted value is not
C3_ImportedUnsaved ==
    /\ snacks = <<Snack("SAVE_FAILED", FALSE), Snack("IMPORTED", TRUE)>>
    /\ all_data = ParseCsvOf[CsvMixed].parsed_data
    /\ storage # Persisted(all_data)
    /\ search_index = IndexOf[all_data]

-----------------------------------------------------------------------------
(* Searches against an import or a reset                                   *)

\* C4: every execution of _search_with_index, on whichever thread, reads a
\* search_index that is the complete index of the all_data it reads.
C4_QuerySeesWholeGeneration ==
    [][\A i \in Threads : Lookup(i) => search_index = IndexOf[all_data]]_vars

-----------------------------------------------------------------------------
(* Debounce and the searches in flight                                     *)

\* timer t is the last of its burst: no later event came while it waited
LastOfBurst(t) == t = Len(log) \/ ~log[t + 1].cont

\* the search of timer t has read its term
HasRead(t) == log[t].ran /\ timers[t].pc # "started"

\* C5: in a burst of events, each arriving while the timer of the one before
\* still waits, the timers of all events but the last are cancelled and run
\* no search, the timer of the last event is the only one that can run, and
\* the search it runs uses the value carried by that last event.
C5_Debounce ==
    \A t \in DOMAIN log :
        /\ ~LastOfBurst(t) => (timers[t].pc = "cancelled" /\ ~log[t].ran)
        /\ timers[t].pc = "cancelled" => ~log[t].ran
        /\ (LastOfBurst(t) /\ HasRead(t))
               => log[t].used = strip(lower(log[t].val))

\* C6: no two executions of _perform_search overlap.
C6_OneSearchInFlight == Cardinality({i \in Threads : InSearch(i)}) <= 1

-----------------------------------------------------------------------------
(* The page of the result set                                              *)

\* no handler and no search is part-way through
Quiet == handler.pc = "idle" /\ \A i \in Threads : ~InSearch(i)

\* C7: whenever no handler is mid-execution and the result set is not
\* empty, current_page is at least 1 and at most the number of pages.
C7_PageInRange ==
    (Quiet /\ filtered_data # <<>>)
        => (1 <= current_page /\ current_page <= total_pages(filtered_data))

-----------------------------------------------------------------------------
(* The index against the catalog, between handlers                         *)

\* C8: after startup and after every import or reset, search_index is the
\* index of the current all_data: every record is in the whole-word bucket
\* of each token of its lowercased code, name and spec, and every record of
\* every bucket, word or prefix, is a record of the current all_data.
C8_IndexOfCurrentCatalog ==
    /\ search_index = IndexOf[all_data]
    /\ \A k \in DOMAIN all_data :
           \A word \in WordKeys(all_data[k]) :
               /\ word \in DOMAIN search_index
               /\ all_data[k] \in Range(search_index[word])
    /\ \A key \in DOMAIN search_index :
           Range(search_index[key]) \subseteq Range(all_data)

\* a reset, whose write failed, after an import that was persisted
C8_ResetAfterImport ==
    /\ snacks = <<Snack("SAVE_FAILED", FALSE), Snack("RESET", TRUE)>>
    /\ all_data = DEFAULT_DATA
    /\ storage = Persisted(ParseCsvOf[CsvMixed].parsed_data)

-----------------------------------------------------------------------------
(* Import: a rejected import                                               *)

\* the content has no row that passes the filters, or csv.reader raises
Rejected(content) ==
    /\ content # <<>>
    /\ ParseCsvOf[content].raised \/ ParseCsvOf[content].parsed_data = <<>>

\* C9: an import whose parsing raises, or that has no surviving row, leaves
\* all_data, search_index and the persisted value as they were and shows a
\* failure message.
C9_RejectedImportChangesNothing ==
    [][\A content \in CsvInputs :
          (Rejected(content) /\ _on_paste_import(content))
              => /\ UNCHANGED <<all_data, search_index, storage>>
                 /\ snacks' # <<>>
                 /\ \A k \in DOMAIN snacks' : ~snacks'[k].is_success]_vars

\* a parse error reported on top of an imported catalog
C9_ParseErrorAfterImport ==
    /\ snacks = <<Snack("PARSE_ERROR", FALSE)>>
    /\ all_data = ParseCsvOf[CsvExample].parsed_data
    /\ storage = Persisted(all_data)

-----------------------------------------------------------------------------
(* Pagination: the pages of a result set                                   *)

\* pages 1..n of rs, one after the other
RECURSIVE PagesUpTo(_, _)
PagesUpTo(rs, n) ==
    IF n = 0 THEN <<>> ELSE PagesUpTo(rs, n - 1) \o page_data(rs, n)

\* C10: for the result set and each of its prefixes rs, the pages
\* 1..total_pages(rs) one after the other are rs itself, and an empty rs
\* has 0 pages.
C10_PagesPartition ==
    \A n \in 0..Len(filtered_data) :
        LET rs == SubSeq(filtered_data, 1, n)
        IN  /\ PagesUpTo(rs, total_pages(rs)) = rs
            /\ rs = <<>> => total_pages(rs) = 0

\* a result set of three pages, the last one partial, shown on that page
C10_ThreePages ==
    /\ Len(filtered_data) > 2 * ITEMS_PER_PAGE
    /\ Len(filtered_data) % ITEMS_PER_PAGE # 0
    /\ current_page = 3
    /\ rows = page_data(filtered_data, 3)

-----------------------------------------------------------------------------
(* Page change                                                             *)

\* C11: a page change by delta sets current_page to current_page + delta
\* when that page is in 1..pageCount, pageCount being the number of pages of
\* filtered_data, and otherwise leaves current_page as it is; filtered_data
\* is never changed.  So -1 on page 1, +1 on the last page and any step
\* with no page are no-ops.
C11_ChangePageWithinRange ==
    [][\A delta \in {-1, 1} :
          ChangePage(delta)
              => LET pageCount ==
                         IF Len(filtered_data) % ITEMS_PER_PAGE = 0
                         THEN Len(filtered_data) \div ITEMS_PER_PAGE
                         ELSE Len(filtered_data) \div ITEMS_PER_PAGE + 1
                     target == current_page + delta
                 IN  /\ filtered_data' = filtered_data
                     /\ current_page' = IF 1 <= target /\ target <= pageCount
                                        THEN target ELSE current_page]_vars

\* the last of two pages is shown: it was reached by a step +1, and a
\* further step +1 is a no-op
C11_OnLastPage ==
    /\ Len(filtered_data) = ITEMS_PER_PAGE + 1
    /\ current_page = 2
    /\ rows = <<filtered_data[ITEMS_PER_PAGE + 1]>>

-----------------------------------------------------------------------------
(* Search: the empty term                                                  *)

\* a search is performed in this step, by a timer or by the clear button
SearchPerformed == _clear_search \/ \E t \in DOMAIN timers : _debounced_search(t)

\* C12: a search performed with a term that is empty once lowercased and
\* stripped ends with the prompt shown, the result set empty and the table
\* and the pagination hidden, whatever the catalog; a search ends with the
\* "no results" status only when its term is not empty and no record of
\* the catalog matches it.
C12_EmptyTermShowsPrompt ==
    [][SearchPerformed
          => LET term == strip(lower(search_term'))
             IN  /\ term = <<>>
                        => /\ status_text' = "PROMPT"
                           /\ status_visible'
                           /\ filtered_data' = <<>>
                           /\ ~table_visible'
                           /\ ~pagination_visible'
                 /\ (status_text' = "NO_DATA" /\ status_visible')
                        => /\ term # <<>>
                           /\ filtered_data' = <<>>
                           /\ LinearScan(all_data, term) = <<>>]_vars

\* a timer has searched for a term of blanks on the catalog of 41 records
C12_BlankTermSearched ==
    /\ all_data = StoredCatalog
    /\ search_term = <<" ">>
    /\ timers # <<>>
    /\ timers[Len(timers)].pc = "done"
    /\ status_text = "PROMPT"
    /\ ~table_visible

-----------------------------------------------------------------------------
(* Search: the order of the results                                        *)

\* the place of a record in a catalog of pairwise distinct records
PlaceIn(data, item) == CHOOSE i \in DOMAIN data : data[i] = item

\* res lists records of data in the order of data, each at most once
InCatalogOrder(res, data) ==
    /\ Range(res) \subseteq Range(data)
    /\ \A a \in 1..(Len(res) - 1) :
           PlaceIn(data, res[a]) < PlaceIn(data, res[a + 1])

\* C13: with a catalog of pairwise distinct records, what a lookup returns
\* for a non-empty term, from a prefix bucket, a whole-word bucket or the
\* scan, is a subsequence of all_data in its order with each record at most
\* once; and so is every bucket of the index.
C13_ResultsInCatalogOrder ==
    (\A i, j \in DOMAIN all_data : all_data[i] = all_data[j] => i = j)
        => /\ \A q \in Queries :
                  strip(lower(q)) # <<>>
                      => InCatalogOrder(
                             _search_with_index(search_index, all_data, q),
                             all_data)
           /\ \A key \in DOMAIN search_index :
                  InCatalogOrder(search_index[key], all_data)

\* the catalog of 41 records is searched through a bucket of several
\* records, and a second page of it is shown
C13_BucketOfManyShown ==
    /\ all_data = StoredCatalog
    /\ PrefixKey(<<"q">>) \in DOMAIN search_index
    /\ filtered_data = search_index[PrefixKey(<<"q">>)]
    /\ Len(filtered_data) > ITEMS_PER_PAGE
    /\ current_page = 2

-----------------------------------------------------------------------------
(* Import and reset: a write that raises                                   *)

\* the outcomes of client_storage.set that raise
Raising == SaveOutcomes \ {"ok"}

\* the handler has shown a failure message and then the success message msg
ReportedThen(shown, msg) ==
    /\ Len(shown) = 2
    /\ ~shown[1].is_success
    /\ shown[2] = Snack(msg, TRUE)

\* C14: when client_storage.set raises inside _save_data during an import
\* or a reset, the failure is shown and the handler runs to its end: all_data
\* is the new catalog, search_index is the index built from it, the success
\* message follows the failure message and the handler thread is idle.
C14_FailedWriteNotFatal ==
    [][\A outcome \in Raising :
          /\ \A content \in CsvInputs :
                 (Accepted(content)
                  /\ ReplaceCatalog(ParseCsvOf[content].parsed_data, outcome))
                     => /\ all_data' = ParseCsvOf[content].parsed_data
                        /\ search_index' = IndexOf[all_data']
                        /\ db_count' = Len(all_data')
                        /\ ReportedThen(snacks', "IMPORTED")
                        /\ handler' = Idle
          /\ _clear_data(outcome)
                 => /\ all_data' = DEFAULT_DATA
                    /\ search_index' = IndexOf[DEFAULT_DATA]
                    /\ db_count' = Len(DEFAULT_DATA)
                    /\ ReportedThen(snacks', "RESET")
                    /\ handler' = Idle]_vars

\* a reset went through on the catalog of 41 records although the store
\* refused the write
C14_ResetUnsaved ==
    /\ snacks = <<Snack("SAVE_DENIED", FALSE), Snack("RESET", TRUE)>>
    /\ all_data = DEFAULT_DATA
    /\ search_index = IndexOf[DEFAULT_DATA]
    /\ storage = Persisted(StoredCatalog)

-----------------------------------------------------------------------------
(* Startup: the catalog _load_data yields                                  *)

\* no _save_data has run yet: all_data is still what _load_data left, and
\* storage what it read
AsLoaded == store_log \in {"loaded", "default", "read_failed"}

\* C15: _load_data always yields a catalog: the stored value when the read
\* returns one that is present and not empty, the seed when the stored value
\* is absent or empty or when the read raises; and it leaves filtered_data
\* empty.
C15_LoadYieldsCatalog ==
    AsLoaded
        => /\ all_data # <<>>
           /\ (store_log # "read_failed" /\ storage.present
                /\ storage.value # <<>>) => all_data = storage.value
           /\ (store_log # "read_failed" /\ ~storage.present)
                  => all_data = DEFAULT_DATA
           /\ (store_log # "read_failed" /\ storage.present
                /\ storage.value = <<>>) => all_data = DEFAULT_DATA
           /\ store_log = "read_failed" => all_data = DEFAULT_DATA
           /\ (timers = <<>> /\ handler = Idle /\ status_text = "PROMPT"
                /\ table_visible) => filtered_data = <<>>

\* the read of a store that holds 41 records raised: the seed is the catalog
C15_SeedAfterFailedRead ==
    /\ store_log = "read_failed"
    /\ storage = Persisted(StoredCatalog)
    /\ all_data = DEFAULT_DATA
    /\ filtered_data = <<>>
    /\ timers = <<>>

-----------------------------------------------------------------------------
(* Import: the rows kept                                                   *)

\* the trimmed first field of a row
CodeOf(row) == strip(row[1])

\* the retention rule for the row of a line after the header
Retained(line) ==
    LET row == csv_row(line)
    IN  /\ Len(row) >= 5
        /\ ~(Len(CodeOf(row)) >= 2 /\ CodeOf(row)[1] \in {"Z", "z"}
                                  /\ CodeOf(row)[2] \in {"Z", "z"})
        /\ ~(Len(CodeOf(row)) >= 1 /\ CodeOf(row)[1] = PENDING)

\* the lines after the header whose row is kept, in input order
KeptLines(content) == SelectSeq(Tail(splitlines(content)), Retained)

\* KeptLines, tabulated over the pasted texts
KeptLinesOf == [content \in CsvInputs \ {<<>>} |-> KeptLines(content)]

\* C16: an import whose parsing does not raise discards the first line and
\* keeps a row if and only if it has at least 5 fields and its trimmed
\* first field neither starts with "ZZ" in any case nor with the pending
\* marker; the records of the new catalog are the kept rows in input order,
\* with code, categoryName, name and spec the trimmed fields 1, 3, 4 and 5
\* and udi empty; with no kept row the catalog stays as it was.
C16_RowsRetained ==
    [][\A content \in CsvInputs :
          (content # <<>> /\ ~ParseCsvOf[content].raised
           /\ _on_paste_import(content))
              => LET kept == KeptLinesOf[content]
                 IN  IF kept = <<>> THEN all_data' = all_data
                     ELSE /\ Len(all_data') = Len(kept)
                          /\ \A k \in DOMAIN kept :
                                 LET row == csv_row(kept[k])
                                 IN  /\ all_data'[k].code = strip(row[1])
                                     /\ all_data'[k].categoryName = strip(row[3])
                                     /\ all_data'[k].name = strip(row[4])
                                     /\ all_data'[k].spec = strip(row[5])
                                     /\ all_data'[k].udi = <<>>]_vars

\* the import of CsvMixed kept four of its eight rows and persisted them
C16_MixedImported ==
    /\ snacks = <<Snack("IMPORTED", TRUE)>>
    /\ Len(all_data) = 4
    /\ all_data[1].code = <<"A", "1">>
    /\ all_data[2].spec = <<>>
    /\ all_data[3].code = <<"K", PENDING>>
    /\ storage = Persisted(all_data)

-----------------------------------------------------------------------------
(* The keys of the index                                                   *)

\* the whole-word keys and the prefix-tagged keys the records of a catalog
\* contribute
WordKeysOf(data) == UNION {WordKeys(data[k]) : k \in DOMAIN data}
PrefixKeysOf(data) == UNION {ItemPrefixKeys(data[k]) : k \in DOMAIN data}

\* C17: no key of search_index is both the whole-word key of a token of a
\* record and the prefix-tagged key of a prefix of a field, so the bucket a
\* whole-word lookup returns was never filled as a prefix bucket.
C17_KeyNamespacesDisjoint ==
    search_index = IndexOf[all_data]
        => \A key \in DOMAIN search_index :
               ~(key \in WordKeysOf(all_data) /\ key \in PrefixKeysOf(all_data))

\* the non-empty leading substrings of at most 9 characters of the
\* lowercased code, name and spec of a record
LeadingSubstrings(item) ==
    UNION {{SubSeq(lower(value), 1, n) : n \in 1..Min(Len(value), 9)} :
               value \in {item.code, item.name, item.spec}}

\* the string p of a prefix-tagged key
Tagged(key) == Len(key) > 8 /\ SubSeq(key, 1, 8) = PrefixKey(<<>>)
Untagged(key) == SubSeq(key, 9, Len(key))

\* C18: a record is in the prefix bucket of a string p if and only if p is
\* a non-empty leading substring of at most 9 characters of its lowercased
\* code, name or spec; so there is no prefix bucket of a string of 10 or
\* more characters, and an empty field gives none.
C18_PrefixBucketsUpToNine ==
    search_index = IndexOf[all_data]
        => /\ \A k \in DOMAIN all_data :
                  \A p \in LeadingSubstrings(all_data[k]) :
                      /\ PrefixKey(p) \in DOMAIN search_index
                      /\ all_data[k] \in Range(search_index[PrefixKey(p)])
           /\ \A key \in DOMAIN search_index :
                  Tagged(key)
                      => /\ Len(Untagged(key)) <= 9
                         /\ \A k \in DOMAIN all_data :
                                all_data[k] \in Range(search_index[key])
                                    => Untagged(key)
                                           \in LeadingSubstrings(all_data[k])

-----------------------------------------------------------------------------
(* Search: every record returned matches                                   *)

\* C19: for every non-empty normalised term, each record a lookup returns,
\* from the prefix bucket, the whole-word bucket or the scan, has the term
\* as a substring of its lowercased code, name or spec.
C19_ReturnedRecordsMatch ==
    search_index = IndexOf[all_data]
        => \A q \in Queries :
               LET term == strip(lower(q))
               IN  term # <<>>
                       => \A k \in DOMAIN _search_with_index(search_index,
                                                             all_data, q) :
                              Matches(_search_with_index(search_index,
                                                         all_data, q)[k],
                                      term)

-----------------------------------------------------------------------------
(* Import and reset: what they leave alone                                 *)

\* the step ends a handler that showed a success message: an import that
\* replaced the catalog, or a reset
Mutated == snacks' # <<>> /\ snacks'[Len(snacks')].is_success

\* C20: an import that replaces the catalog and a reset leave search_term,
\* filtered_data and current_page, and with them the table, the status and
\* the timers, as they were: the result set shown afterwards is the one
\* computed on the catalog before.
C20_MutationKeepsResults ==
    [][Mutated
          => /\ UNCHANGED <<search_term, filtered_data, current_page>>
             /\ UNCHANGED <<rows, status_text, status_visible, table_visible,
                            pagination_visible, debounce_timer, timers>>]_vars

\* after a reset the second page of the 41 records found in the catalog
\* before is still shown
C20_StaleResultsShown ==
    /\ snacks = <<Snack("RESET", TRUE)>>
    /\ all_data = DEFAULT_DATA
    /\ Len(filtered_data) > 2 * ITEMS_PER_PAGE
    /\ \A k \in DOMAIN filtered_data : filtered_data[k] \notin Range(all_data)
    /\ current_page = 2
    /\ search_term = <<" ", "W", " ">>

-----------------------------------------------------------------------------
(* The debounce timers                                                     *)

\* timer t is started, not cancelled and has not fired
Armed(t) == timers[t].pc = "armed"

\* C21: with the input-change events handled one at a time, at most one
\* debounce timer is armed, and it is the one of the last event: every
\* timer before it was cancelled before firing or has fired.
C21_OneTimerArmed ==
    /\ Cardinality({t \in DOMAIN timers : Armed(t)}) <= 1
    /\ \A t \in DOMAIN timers :
           Armed(t) => (t = debounce_timer /\ t = Len(timers))
    /\ \A t \in DOMAIN timers :
           t < Len(timers)
               => timers[t].pc \in {"cancelled", "done"} \cup SearchPcs

\* a second event came while the timer of the first still waited: the first
\* is cancelled and the second is armed
C21_SecondEventRearmed ==
    /\ Len(timers) = 2
    /\ timers[1].pc = "cancelled"
    /\ Armed(2)
    /\ debounce_timer = 2

====
